---- MODULE Spec2Model ----
(***************************************************************************)
(* Minesweeper game engine of src/src/App.jsx: the board, deferred mine    *)
(* planting with a safe first click, the breadth-first cascade, the flag   *)
(* budget and the ready/playing/won/lost status.                           *)
(*                                                                         *)
(* Each action is one user intent (a click on a cell, the reset button)    *)
(* run to completion: the setBoard updater together with every setState    *)
(* call it makes, observed after React has committed the render.           *)
(***************************************************************************)
EXTENDS Integers, Sequences, FiniteSets, TLC

(***************************************************************************)
(* The difficulty of the session, scaled down from DIFFICULTIES.  As in    *)
(* every preset, mines fit outside the 3x3 safe zone of any first click.   *)
(***************************************************************************)
Rows == 2
Cols == 4
Mines == 2

\* The most ticks of the clock followed within one game by Spec.
MaxTicks == 1

\* The value at which the elapsed-seconds counter saturates.
SecondsCap == 999

VARIABLES
    board,          \* useState board: [Cells -> cell record]
    minesPlanted,   \* useState minesPlanted
    status,         \* useState status: "ready" | "playing" | "won" | "lost"
    revealedCount,  \* useState revealedCount
    seconds,        \* useState seconds
    timerRef,       \* TRUE iff timerRef.current holds an interval
    crashed,        \* TRUE once an updater has thrown (the tree is unmounted)
    lastOp          \* the last intent handled and the branch it took

vars == <<board, minesPlanted, status, revealedCount, seconds, timerRef, crashed, lastOp>>

Cells == (0 .. Rows - 1) \X (0 .. Cols - 1)

\* Coordinates a caller may pass: the grid and one ring around it.
Coords == (-1 .. Rows) \X (-1 .. Cols)

inBounds(r, c, rows, cols) == r >= 0 /\ r < rows /\ c >= 0 /\ c < cols

neighbors(r, c) ==
    << <<r-1, c-1>>, <<r-1, c>>, <<r-1, c+1>>,
       <<r,   c-1>>,             <<r,   c+1>>,
       <<r+1, c-1>>, <<r+1, c>>, <<r+1, c+1>> >>

\* The in-bounds neighbours of (r,c), as a set of cells.
inNeighbors(r, c, rows, cols) ==
    { neighbors(r, c)[i] : i \in 1 .. 8 } \cap
        { p \in Coords : inBounds(p[1], p[2], rows, cols) }

emptyCell == [isMine |-> FALSE, isRevealed |-> FALSE, isFlagged |-> FALSE, count |-> 0]

makeEmptyBoard(rows, cols) ==
    [p \in (0 .. rows - 1) \X (0 .. cols - 1) |-> emptyCell]

cloneBoard(b) == [p \in DOMAIN b |-> [f \in DOMAIN b[p] |-> b[p][f]]]

\* All subsets of S with exactly k elements.
RECURSIVE KSubsets(_, _)
KSubsets(S, k) ==
    IF k = 0 THEN {{}}
    ELSE IF S = {} THEN {}
    ELSE LET x == CHOOSE y \in S : TRUE
         IN  { T \cup {x} : T \in KSubsets(S \ {x}, k - 1) } \cup KSubsets(S \ {x}, k)

\* The forbidden set without the neighbours.
forbiddenCellOnly(rows, cols, safeR, safeC) == {<<safeR, safeC>>}

\* The forbidden set of plantMines: the clicked key and its in-bounds neighbours.
forbidden(rows, cols, safeR, safeC) ==
    {<<safeR, safeC>>} \cup inNeighbors(safeR, safeC, rows, cols)

\* The counts loop of plantMines: every non-mine cell gets the number of its
\* in-bounds mine neighbours; a mine cell keeps its count.
setCounts(b, rows, cols) ==
    [p \in DOMAIN b |->
        IF b[p].isMine THEN b[p]
        ELSE [b[p] EXCEPT !.count =
                Cardinality({ q \in inNeighbors(p[1], p[2], rows, cols) : b[q].isMine })]]

\* plantMines draws coordinates at random until `mines` cells outside the
\* forbidden set, and not yet mines, are mined: every such choice is possible.
\* The set is empty when there is no room (the loop would not end).
plantMines(b, rows, cols, mines, safeR, safeC) ==
    LET free == { p \in DOMAIN b :
                    p \notin forbidden(rows, cols, safeR, safeC) /\ ~b[p].isMine }
    IN  { setCounts([p \in DOMAIN b |->
                        IF p \in S THEN [b[p] EXCEPT !.isMine = TRUE] ELSE b[p]],
                    rows, cols) : S \in KSubsets(free, mines) }

\* The inner loop without the isFlagged test.
RECURSIVE floodNeighborsThroughFlags(_, _, _, _, _, _)
floodNeighborsThroughFlags(st, r, c, i, rows, cols) ==
    IF i > 8 THEN st
    ELSE LET n == neighbors(r, c)[i]
             cell == st.b[n]
         IN  IF ~inBounds(n[1], n[2], rows, cols)
             THEN floodNeighborsThroughFlags(st, r, c, i + 1, rows, cols)
             ELSE IF n \notin st.seen /\ ~cell.isRevealed /\ ~cell.isMine
                  THEN floodNeighborsThroughFlags(
                         [st EXCEPT !.seen = @ \cup {n},
                                    !.q = IF cell.count = 0 THEN Append(@, n) ELSE @,
                                    !.pushes = IF cell.count = 0 THEN Append(@, n) ELSE @,
                                    !.b = [@ EXCEPT ![n].isRevealed = TRUE]],
                         r, c, i + 1, rows, cols)
                  ELSE floodNeighborsThroughFlags(st, r, c, i + 1, rows, cols)

\* The inner loop that marks nothing when it pushes: a cell is marked only
\* when it is taken from the queue.
RECURSIVE floodNeighborsMarkLate(_, _, _, _, _, _)
floodNeighborsMarkLate(st, r, c, i, rows, cols) ==
    IF i > 8 THEN st
    ELSE LET n == neighbors(r, c)[i]
             cell == st.b[n]
         IN  IF ~inBounds(n[1], n[2], rows, cols)
             THEN floodNeighborsMarkLate(st, r, c, i + 1, rows, cols)
             ELSE IF ~cell.isRevealed /\ ~cell.isFlagged /\ ~cell.isMine
                  THEN floodNeighborsMarkLate(
                         [st EXCEPT !.q = Append(@, n),
                                    !.pushes = Append(@, n)],
                         r, c, i + 1, rows, cols)
                  ELSE floodNeighborsMarkLate(st, r, c, i + 1, rows, cols)

\* The inner loop of floodReveal over neighbors(r,c)[i..8]; st = [b, q, seen].
RECURSIVE floodNeighbors(_, _, _, _, _, _)
floodNeighbors(st, r, c, i, rows, cols) ==
    IF i > 8 THEN st
    ELSE LET n == neighbors(r, c)[i]
             cell == st.b[n]
         IN  IF ~inBounds(n[1], n[2], rows, cols)
             THEN floodNeighbors(st, r, c, i + 1, rows, cols)
             ELSE IF n \notin st.seen /\ ~cell.isRevealed /\ ~cell.isFlagged /\ ~cell.isMine
                  THEN floodNeighbors(
                         [st EXCEPT !.seen = @ \cup {n},
                                    !.q = IF cell.count = 0 THEN Append(@, n) ELSE @,
                                    !.pushes = IF cell.count = 0 THEN Append(@, n) ELSE @,
                                    !.b = [@ EXCEPT ![n].isRevealed = TRUE]],
                         r, c, i + 1, rows, cols)
                  ELSE floodNeighbors(st, r, c, i + 1, rows, cols)

\* The while loop of floodReveal.
RECURSIVE floodLoop(_, _, _)
floodLoop(st, rows, cols) ==
    IF Len(st.q) = 0 THEN st
    ELSE LET p == Head(st.q)
             st1 == [st EXCEPT !.q = Tail(@),
                               !.shifts = @ + 1,
                               !.b = [@ EXCEPT ![p].isRevealed = TRUE]]
         IN  IF st1.b[p].count = 0
             THEN floodLoop(floodNeighbors(st1, p[1], p[2], 1, rows, cols), rows, cols)
             ELSE floodLoop(st1, rows, cols)

\* floodReveal run to the end: the final board, queue and seen set, the
\* sequence of coordinates ever pushed and the number of q.shift() calls.
floodRun(b, startR, startC) ==
    floodLoop([b |-> b, q |-> << <<startR, startC>> >>, seen |-> {<<startR, startC>>},
               pushes |-> << <<startR, startC>> >>, shifts |-> 0], Rows, Cols)

floodReveal(b, startR, startC) == floodRun(b, startR, startC).b

totalSafe == Rows * Cols - Mines

countFlagged(b) == Cardinality({ p \in DOMAIN b : b[p].isFlagged })

flagsLeft == IF Mines - countFlagged(board) > 0 THEN Mines - countFlagged(board) ELSE 0

coveredLeft == Rows * Cols - revealedCount

Init ==
    /\ board = makeEmptyBoard(Rows, Cols)
    /\ minesPlanted = FALSE
    /\ status = "ready"
    /\ revealedCount = 0
    /\ seconds = 0
    /\ timerRef = FALSE
    /\ crashed = FALSE
    /\ lastOp = [op |-> "init", res |-> "none", first |-> FALSE]

\* The loss branch without its isMine test.
revealEverything(b) == [p \in DOMAIN b |-> [b[p] EXCEPT !.isRevealed = TRUE]]

\* The loss branch that leaves flagged mines covered.
revealMinesUnflagged(b) ==
    [p \in DOMAIN b |-> IF b[p].isMine /\ ~b[p].isFlagged
                          THEN [b[p] EXCEPT !.isRevealed = TRUE] ELSE b[p]]

\* Every mine cell gets isRevealed (the loss branch of handleReveal).
revealMines(b) ==
    [p \in DOMAIN b |-> IF b[p].isMine THEN [b[p] EXCEPT !.isRevealed = TRUE] ELSE b[p]]

\* Every mine cell gets isFlagged (the win branch of handleReveal).
flagMines(b) ==
    [p \in DOMAIN b |-> IF b[p].isMine THEN [b[p] EXCEPT !.isFlagged = TRUE] ELSE b[p]]

countRevealedSafe(b) ==
    Cardinality({ p \in DOMAIN b : b[p].isRevealed /\ ~b[p].isMine })

\* An updater that indexes the board outside the grid reads a property of
\* undefined: the TypeError is rethrown by the render and, with no error
\* boundary, React unmounts the tree (the effect cleanup clears the
\* interval).  The session is frozen as it was.
throwTypeError(op) ==
    /\ crashed' = TRUE
    /\ timerRef' = FALSE
    /\ lastOp' = [op |-> op, res |-> "threw", first |-> FALSE]
    /\ UNCHANGED <<board, minesPlanted, status, revealedCount, seconds>>

\* The timer effect, which runs when a render commits a changed status: its
\* cleanup clears the interval, then an interval is set iff the status is
\* playing.  ref is kept when the status did not change.
timerEffect(old, new, ref) == IF new = old THEN ref ELSE new = "playing"

\* The guard with the lost phase left out.
isTerminalWonOnly(s) == s = "won"

\* The guard with the won phase left out.
isTerminalLostOnly(s) == s = "lost"

\* The guard at the top of both updaters.
isTerminal(s) == s = "lost" \/ s = "won"

\* The first-click test that forgets minesPlanted.
firstClickAlways(planted) == TRUE

\* "first click": mines are not planted yet.
firstClick(planted) == ~planted

\* handleReveal(r, c): the setBoard updater with the setState calls it makes.
handleReveal(r, c) ==
    /\ ~crashed
    /\ IF isTerminal(status)
       THEN /\ lastOp' = [op |-> "reveal", res |-> "terminal", first |-> FALSE]
            /\ UNCHANGED <<board, minesPlanted, status, revealedCount, seconds, timerRef,
                           crashed>>
       ELSE \E next \in (IF firstClick(minesPlanted)
                         THEN plantMines(cloneBoard(board), Rows, Cols, Mines, r, c)
                         ELSE {cloneBoard(board)}) :
              LET st1 == IF firstClick(minesPlanted) THEN "playing" ELSE status
                  first == firstClick(minesPlanted)
                  cell == next[<<r, c>>]
              IN  IF ~inBounds(r, c, Rows, Cols)
                  THEN throwTypeError("reveal")
                  ELSE
                  /\ crashed' = FALSE
                  /\ minesPlanted' = TRUE
                  /\ IF cell.isRevealed \/ cell.isFlagged
                     THEN /\ board' = board
                          /\ status' = st1
                          /\ UNCHANGED revealedCount
                          /\ lastOp' = [op |-> "reveal", res |-> "rejected", first |-> first]
                     ELSE IF cell.isMine
                     THEN /\ board' = revealMines(next)
                          /\ status' = "lost"
                          /\ UNCHANGED revealedCount
                          /\ lastOp' = [op |-> "reveal", res |-> "mine", first |-> first]
                     ELSE LET shown == IF cell.count = 0
                                       THEN floodReveal(next, r, c)
                                       ELSE [next EXCEPT ![<<r, c>>].isRevealed = TRUE]
                              newlyRevealed == countRevealedSafe(shown)
                          IN  /\ revealedCount' = newlyRevealed
                              /\ IF newlyRevealed = totalSafe
                                 THEN board' = flagMines(shown) /\ status' = "won"
                                 ELSE board' = shown /\ status' = st1
                              /\ lastOp' = [op |-> "reveal", res |-> IF cell.count = 0 THEN "flood" ELSE "single",
                                            first |-> first]
                  /\ seconds' = (IF first THEN 0 ELSE seconds)
                  /\ timerRef' = timerEffect(status, status', timerRef)

\* The budget test with < in place of ===.
budgetExhaustedNever(willFlag, flagsLeftNow) == willFlag /\ flagsLeftNow < 0

\* "respect budget": a new flag is refused when none is left.
budgetExhausted(willFlag, flagsLeftNow) == willFlag /\ flagsLeftNow = 0

\* handleFlag(r, c): the setBoard updater.
handleFlag(r, c) ==
    /\ ~crashed
    /\ IF isTerminal(status)
       THEN /\ lastOp' = [op |-> "flag", res |-> "terminal", first |-> FALSE]
            /\ UNCHANGED <<board, minesPlanted, status, revealedCount, seconds, timerRef,
                           crashed>>
       ELSE LET flaggedPrev == countFlagged(board)
                flagsLeftNow == Mines - flaggedPrev
                next == cloneBoard(board)
                cell == next[<<r, c>>]
                willFlag == ~cell.isFlagged
            IN  IF ~inBounds(r, c, Rows, Cols)
                THEN throwTypeError("flag")
                ELSE
                /\ UNCHANGED <<minesPlanted, status, revealedCount, seconds, timerRef, crashed>>
                /\ IF cell.isRevealed
                   THEN /\ board' = board
                        /\ lastOp' = [op |-> "flag", res |-> "revealed", first |-> FALSE]
                   ELSE IF budgetExhausted(willFlag, flagsLeftNow)
                   THEN /\ board' = board
                        /\ lastOp' = [op |-> "flag", res |-> "budget", first |-> FALSE]
                   ELSE /\ board' = [next EXCEPT ![<<r, c>>].isFlagged = willFlag]
                        /\ lastOp' = [op |-> "flag", res |-> IF willFlag THEN "flagged" ELSE "unflagged",
                                      first |-> FALSE]

\* reset without its setSeconds(0).
resetKeepsSeconds ==
    /\ ~crashed
    /\ board' = makeEmptyBoard(Rows, Cols)
    /\ minesPlanted' = FALSE
    /\ status' = "ready"
    /\ revealedCount' = 0
    /\ timerRef' = FALSE
    /\ lastOp' = [op |-> "reset", res |-> "none", first |-> FALSE]
    /\ UNCHANGED <<seconds, crashed>>

\* reset: the smiley button.
reset ==
    /\ ~crashed
    /\ board' = makeEmptyBoard(Rows, Cols)
    /\ minesPlanted' = FALSE
    /\ status' = "ready"
    /\ revealedCount' = 0
    /\ seconds' = 0
    /\ timerRef' = FALSE
    /\ lastOp' = [op |-> "reset", res |-> "none", first |-> FALSE]
    /\ UNCHANGED crashed

\* The counter after one more second, without the cap.
nextSecondsWrap(s) == (s + 1) % (SecondsCap + 1)

\* s => Math.min(999, s + 1)
nextSeconds(s) == IF s + 1 < SecondsCap THEN s + 1 ELSE SecondsCap

\* The interval callback, one second after the last.
tick ==
    /\ ~crashed
    /\ timerRef
    /\ seconds' = nextSeconds(seconds)
    /\ UNCHANGED <<board, minesPlanted, status, revealedCount, timerRef, crashed, lastOp>>

\* The first MaxTicks seconds of a game.
tickShort == seconds < MaxTicks /\ tick

\* The presentation layer renders one Cell per grid position, so the intents
\* it relays are in bounds.
Reveal == \E p \in Cells : handleReveal(p[1], p[2])
Flag == \E p \in Cells : handleFlag(p[1], p[2])

Next == Reveal \/ Flag \/ reset \/ tickShort

Spec == Init /\ [][Next]_vars

\* A caller that may also pass coordinates outside the grid.
RevealAny == \E p \in Coords : handleReveal(p[1], p[2])
FlagAny == \E p \in Coords : handleFlag(p[1], p[2])

NextAny == RevealAny \/ FlagAny \/ reset \/ tickShort

SpecAny == Init /\ [][NextAny]_vars

\* The clock followed up to its cap, with the clicks on two opposite corners.
TimerCells == {<<0, 0>>, <<Rows - 1, Cols - 1>>}

RevealCorner == \E p \in TimerCells : handleReveal(p[1], p[2])
FlagCorner == \E p \in TimerCells : handleFlag(p[1], p[2])

NextTimer == RevealCorner \/ FlagCorner \/ reset \/ tick

SpecTimer == Init /\ [][NextTimer]_vars

(***************************************************************************)
(* Properties                                                              *)
(***************************************************************************)
mineCells(b) == { p \in DOMAIN b : b[p].isMine }

session == <<board, status, minesPlanted, revealedCount>>

\* C1: a reveal(r,c) applied in phase ready (whatever flags were placed before)
\* leaves (r,c) and all its in-bounds neighbours free of mines, and the phase
\* is not lost.
C1_FirstRevealSafe ==
    [][\A p \in Cells :
          (status = "ready" /\ handleReveal(p[1], p[2]))
          => /\ ~board'[p].isMine
             /\ \A q \in inNeighbors(p[1], p[2], Rows, Cols) : ~board'[q].isMine
             /\ status' # "lost"]_vars

\* A first reveal that planted the mines and cascaded.
C1_Witness ==
    /\ lastOp.op = "reveal" /\ lastOp.first /\ lastOp.res = "flood"
    /\ status = "playing"
    /\ Cardinality(mineCells(board)) = Mines

\* C2: whenever minesPlanted is true the grid holds exactly Mines mines and
\* every non-mine cell's count is the number of its in-bounds mine neighbours.
C2_MineCountInvariant ==
    minesPlanted =>
        /\ Cardinality(mineCells(board)) = Mines
        /\ \A p \in Cells :
              ~board[p].isMine =>
                 board[p].count =
                    Cardinality(inNeighbors(p[1], p[2], Rows, Cols) \cap mineCells(board))

allSafeRevealed == \A p \in Cells : ~board[p].isMine => board[p].isRevealed

\* C3: with mines planted, phase won implies every non-mine cell is revealed,
\* and all non-mine cells revealed excludes phase playing.
C3_WonIffAllSafeRevealed ==
    minesPlanted =>
        /\ status = "won" => allSafeRevealed
        /\ allSafeRevealed => status # "playing"

\* C4: no cell is both flagged and revealed, in any phase.
C4_NeverFlaggedAndRevealed ==
    \A p \in Cells : ~(board[p].isFlagged /\ board[p].isRevealed)

\* C5: a reveal in phase playing of an unrevealed, unflagged mine sets the phase
\* to lost and isRevealed on every mine; isRevealed of the non-mine cells,
\* isFlagged, isMine and count of every cell and revealedCount are unchanged.
C5_LossFrame ==
    [][\A p \in Cells :
          (/\ status = "playing"
           /\ board[p].isMine /\ ~board[p].isRevealed /\ ~board[p].isFlagged
           /\ handleReveal(p[1], p[2]))
          => /\ status' = "lost"
             /\ revealedCount' = revealedCount
             /\ \A q \in Cells :
                   /\ board'[q].isRevealed = (board[q].isMine \/ board[q].isRevealed)
                   /\ board'[q].isFlagged = board[q].isFlagged
                   /\ board'[q].isMine = board[q].isMine
                   /\ board'[q].count = board[q].count]_vars

\* A lost game that still has hidden safe cells.
C5_Witness ==
    /\ lastOp.op = "reveal" /\ lastOp.res = "mine"
    /\ status = "lost"
    /\ \E q \in Cells : ~board[q].isMine /\ ~board[q].isRevealed

\* C6: the number of flagged cells never exceeds Mines, and a toggleFlag on an
\* unflagged cell while Mines cells are flagged leaves the grid unchanged.
C6_FlagBudget ==
    /\ [](countFlagged(board) <= Mines)
    /\ [][\A p \in Cells :
            (/\ ~board[p].isFlagged
             /\ countFlagged(board) = Mines
             /\ handleFlag(p[1], p[2]))
            => board' = board /\ ~board'[p].isFlagged]_vars

\* A toggleFlag refused for lack of budget.
C6_Witness ==
    /\ lastOp.op = "flag" /\ lastOp.res = "budget"
    /\ countFlagged(board) = Mines
    /\ flagsLeft = 0

\* C7: in phase won or lost every reveal and every toggleFlag on a cell of the
\* grid leaves board, status, minesPlanted and revealedCount as they were.
C7_TerminalFrame ==
    [][\A p \in Cells :
          (status \in {"won", "lost"} /\ (handleReveal(p[1], p[2]) \/ handleFlag(p[1], p[2])))
          => UNCHANGED session]_vars

\* An intent absorbed by a finished game.
C7_Witness ==
    /\ lastOp.res = "terminal"
    /\ status \in {"won", "lost"}
    /\ \E q \in Cells : ~board[q].isRevealed

\* C8: in a non-terminal phase a reveal of a flagged or already revealed cell
\* changes neither board nor status nor minesPlanted nor revealedCount.
C8_RejectedRevealFrame ==
    [][\A p \in Cells :
          (/\ status \in {"ready", "playing"}
           /\ (board[p].isFlagged \/ board[p].isRevealed)
           /\ handleReveal(p[1], p[2]))
          => UNCHANGED session]_vars

\* C9: reveal and toggleFlag with coordinates outside the grid raise no error
\* and leave board, status, minesPlanted and revealedCount unchanged.
C9_OutOfBoundsNoOp ==
    [][\A p \in Coords \ Cells :
          (handleReveal(p[1], p[2]) \/ handleFlag(p[1], p[2]))
          => ~crashed' /\ UNCHANGED session]_vars

\* C10 as stated: the phase starts ready; a reveal or toggleFlag changes it only
\* along ready -> playing, playing -> won, playing -> lost; toggleFlag never
\* changes it.
C10_PhaseSteps ==
    /\ status = "ready"
    /\ [][lastOp'.op \in {"reveal", "flag"} =>
            \/ status' = status
            \/ <<status, status'>> \in
                 {<<"ready", "playing">>, <<"playing", "won">>, <<"playing", "lost">>}]_vars
    /\ [][lastOp'.op = "flag" => status' = status]_vars

\* C10 amended: as above, and a first reveal may also end in won (it sets
\* playing and then won within the one operation).
C10_PhaseStepsAmended ==
    /\ status = "ready"
    /\ [][lastOp'.op \in {"reveal", "flag"} =>
            \/ status' = status
            \/ <<status, status'>> \in
                 {<<"ready", "playing">>, <<"ready", "won">>,
                  <<"playing", "won">>, <<"playing", "lost">>}]_vars
    /\ [][lastOp'.op = "flag" => status' = status]_vars

\* A first reveal whose cascade uncovered every safe cell.
C10_Witness ==
    /\ lastOp.op = "reveal" /\ lastOp.first
    /\ status = "won"

\* The grid a reveal works on: isMine and count as planted (b1), isRevealed and
\* isFlagged as they were before the call (b0).
workBoard(b0, b1) ==
    [p \in Cells |-> [b1[p] EXCEPT !.isRevealed = b0[p].isRevealed,
                                   !.isFlagged = b0[p].isFlagged]]

revealedCells(b) == { p \in DOMAIN b : b[p].isRevealed }

\* Two distinct cells that touch by a side or a corner.
adjacent(z, n) ==
    /\ z # n
    /\ z[1] - n[1] \in {-1, 0, 1}
    /\ z[2] - n[2] \in {-1, 0, 1}

\* The least set that holds Z and, with a cell, each of its in-bounds
\* neighbours that lies in pass.
RECURSIVE closure(_, _)
closure(Z, pass) ==
    LET more == { n \in pass : \E z \in Z : adjacent(z, n) } \ Z
    IN  IF more = {} THEN Z ELSE closure(Z \cup more, pass)

zeroUnflagged(b) == { n \in Cells : b[n].count = 0 /\ ~b[n].isMine /\ ~b[n].isFlagged }

zeroUnflaggedCovered(b) == { n \in zeroUnflagged(b) : ~b[n].isRevealed }

neighboursOf(Z) == { n \in Cells : \E z \in Z : adjacent(z, n) }

\* The start cell of a cascade: covered, unflagged, not a mine, count 0.
cascadeStart(b, p) ==
    ~b[p].isRevealed /\ ~b[p].isFlagged /\ ~b[p].isMine /\ b[p].count = 0

\* C11 as stated: a reveal of a covered, unflagged, non-mine zero-count cell
\* leaves revealed, besides the cells revealed before, exactly the zero-count
\* cells joined to the start through unflagged zero-count cells and the
\* unflagged nonzero non-mine neighbours of those; no flagged cell and no mine
\* is revealed by it.
C11_CascadeExact ==
    [][\A p \in Cells :
          LET b == workBoard(board, board')
              Z == closure({p}, zeroUnflagged(b))
              border == { n \in neighboursOf(Z) :
                            ~b[n].isFlagged /\ ~b[n].isMine /\ b[n].count # 0 }
          IN  (/\ status \in {"ready", "playing"}
               /\ lastOp'.op = "reveal" /\ lastOp'.res = "flood"
               /\ cascadeStart(b, p)
               /\ handleReveal(p[1], p[2]))
              => /\ revealedCells(board') = revealedCells(board) \cup Z \cup border
                 /\ \A n \in revealedCells(board') \ revealedCells(board) :
                       ~b[n].isFlagged /\ ~b[n].isMine]_vars

\* C11 amended: the cascade does not continue through zero-count cells that were
\* already revealed; the region is joined to the start through zero-count
\* cells that were covered and unflagged before the call.
C11_CascadeExactAmended ==
    [][\A p \in Cells :
          LET b == workBoard(board, board')
              Z == closure({p}, zeroUnflaggedCovered(b))
              border == { n \in neighboursOf(Z) :
                            ~b[n].isFlagged /\ ~b[n].isMine /\ b[n].count # 0 }
          IN  (/\ status \in {"ready", "playing"}
               /\ lastOp'.op = "reveal" /\ lastOp'.res = "flood"
               /\ cascadeStart(b, p)
               /\ handleReveal(p[1], p[2]))
              => /\ revealedCells(board') = revealedCells(board) \cup Z \cup border
                 /\ \A n \in revealedCells(board') \ revealedCells(board) :
                       ~b[n].isFlagged /\ ~b[n].isMine]_vars

\* A cascade over planted mines that stopped at a flag and at numbered cells.
C11_Witness ==
    /\ lastOp.op = "reveal" /\ lastOp.res = "flood"
    /\ Cardinality(mineCells(board)) = Mines
    /\ \E n \in Cells : board[n].isFlagged /\ ~board[n].isMine /\ board[n].count = 0
    /\ \E n \in Cells : board[n].isRevealed /\ board[n].count # 0

\* C12: in phase won every mine cell is flagged and no other cell is, so the
\* flagged set is the mine set and flagsLeft is 0.
C12_WonFlagsAreMines ==
    status = "won" =>
        /\ { p \in Cells : board[p].isFlagged } = mineCells(board)
        /\ flagsLeft = 0

\* C13: after reset, whatever the state it was called in, every cell is the
\* empty cell, status is ready, minesPlanted is false, revealedCount and
\* seconds are 0 and no interval is set (so no tick follows).
C13_ResetIsInitial ==
    lastOp.op = "reset" =>
        /\ \A p \in Cells : board[p] = [isMine |-> FALSE, isRevealed |-> FALSE,
                                        isFlagged |-> FALSE, count |-> 0]
        /\ DOMAIN board = Cells
        /\ status = "ready"
        /\ minesPlanted = FALSE
        /\ revealedCount = 0
        /\ seconds = 0
        /\ timerRef = FALSE

\* A reset has been handled.
C13_Witness ==
    /\ lastOp.op = "reset"
    /\ status = "ready"
    /\ ~crashed

numColor(count) ==
    CASE count = 1 -> "#0000FF" [] count = 2 -> "#008200" [] count = 3 -> "#FF0000"
      [] count = 4 -> "#000084" [] count = 5 -> "#840000" [] count = 6 -> "#008284"
      [] count = 7 -> "#000000" [] count = 8 -> "#7d7d7d" [] OTHER -> "#444"

\* A display that shows the bomb of a covered mine.
cellDisplayLeaky(cell) ==
    IF cell.isMine THEN "bomb"
    ELSE IF ~cell.isRevealed THEN (IF cell.isFlagged THEN "flag" ELSE "")
    ELSE IF cell.count # 0 THEN ToString(cell.count) ELSE ""

\* The text of a Cell button ("flag" and "bomb" stand for the two emoji).
cellDisplay(cell) ==
    IF ~cell.isRevealed THEN (IF cell.isFlagged THEN "flag" ELSE "")
    ELSE IF cell.isMine THEN "bomb"
    ELSE IF cell.count # 0 THEN ToString(cell.count) ELSE ""

\* The style of a Cell button: the parts that depend on the cell.
cellStyle(cell) ==
    IF cell.isRevealed
    THEN [look |-> "cellRevealed", color |-> numColor(cell.count), fontWeight |-> 700]
    ELSE [look |-> "cellCovered", color |-> "", fontWeight |-> 0]

\* What the grid shows: the text and style of every Cell.
rendered == [p \in Cells |-> [display |-> cellDisplay(board[p]), style |-> cellStyle(board[p])]]

\* C15: two covered cells of the grid that agree on isFlagged and count are
\* rendered with the same text and style, whatever their isMine.
C15_CoveredMineNotShown ==
    \A p, q \in Cells :
        (/\ ~board[p].isRevealed /\ ~board[q].isRevealed
         /\ board[p].isFlagged = board[q].isFlagged
         /\ board[p].count = board[q].count)
        => rendered[p] = rendered[q]

\* A covered mine and a covered safe cell with the same flag and count.
C15_Witness ==
    \E p, q \in Cells :
        /\ board[p].isMine /\ ~board[q].isMine
        /\ ~board[p].isRevealed /\ ~board[q].isRevealed
        /\ board[p].isFlagged = board[q].isFlagged
        /\ board[p].count = board[q].count
        /\ rendered[p] = rendered[q]

\* C16: once minesPlanted is true it stays true until a reset and no reveal or
\* toggleFlag changes isMine or count of any cell; a reveal made when
\* minesPlanted is true does not run plantMines.
C16_PlantedOnce ==
    /\ [][(minesPlanted /\ lastOp'.op # "reset") =>
            /\ minesPlanted'
            /\ \A q \in Cells : /\ board'[q].isMine = board[q].isMine
                                /\ board'[q].count = board[q].count]_vars
    /\ [][\A p \in Cells :
            (minesPlanted /\ lastOp'.op = "reveal" /\ handleReveal(p[1], p[2]))
            => ~lastOp'.first]_vars

\* A later reveal on a grid that holds its planted mines.
C16_Witness ==
    /\ lastOp.op = "reveal" /\ ~lastOp.first /\ lastOp.res \in {"single", "flood"}
    /\ minesPlanted
    /\ Cardinality(mineCells(board)) = Mines

\* C17: revealedCount is the number of cells of the grid that are revealed and
\* not mines, and coveredLeft is rows*cols minus that number.
C17_RevealedCountFresh ==
    LET n == Cardinality({ p \in Cells : board[p].isRevealed /\ ~board[p].isMine })
    IN  revealedCount = n /\ coveredLeft = Rows * Cols - n

\* A lost game: the mines are revealed and some safe cells are.
C17_Witness ==
    /\ status = "lost"
    /\ revealedCount > 0
    /\ \E p \in Cells : board[p].isMine /\ board[p].isRevealed
    /\ revealedCount = Cardinality({ p \in Cells : board[p].isRevealed /\ ~board[p].isMine })

noRepeats(seq) == \A i, j \in 1 .. Len(seq) : i # j => seq[i] # seq[j]

\* A finished run of floodReveal: the queue is empty, no coordinate was pushed
\* twice, and each pushed coordinate was taken once, at most rows*cols in all.
floodEnded(run) ==
    /\ run.q = << >>
    /\ noRepeats(run.pushes)
    /\ run.shifts = Len(run.pushes)
    /\ run.shifts <= Rows * Cols

\* C18: floodReveal, on every grid and start cell a reveal hands it, ends with
\* an empty queue after at most rows*cols q.shift() calls, and no coordinate
\* is pushed on the queue more than once.
C18_FloodTerminates ==
    [][\A p \in Cells :
          (/\ status \in {"ready", "playing"}
           /\ lastOp'.op = "reveal" /\ lastOp'.res = "flood"
           /\ cascadeStart(workBoard(board, board'), p)
           /\ handleReveal(p[1], p[2]))
          => floodEnded(floodRun(workBoard(board, board'), p[1], p[2]))]_vars

\* A cascade that took more than one cell from its queue.
C18_Witness ==
    /\ lastOp.op = "reveal" /\ lastOp.res = "flood"
    /\ Cardinality(mineCells(board)) = Mines
    /\ Cardinality({ p \in Cells : board[p].isRevealed /\ board[p].count = 0 }) > 1

\* C19: in phase ready, playing or won no mine cell is revealed, and in phase
\* lost every mine cell is revealed.
C19_MinesShownOnlyWhenLost ==
    /\ status \in {"ready", "playing", "won"} =>
          \A p \in Cells : board[p].isMine => ~board[p].isRevealed
    /\ status = "lost" =>
          \A p \in Cells : board[p].isMine => board[p].isRevealed

\* A lost game with a flagged mine among the revealed mines.
C19_Witness ==
    /\ status = "lost"
    /\ Cardinality({ p \in Cells : board[p].isMine /\ board[p].isRevealed }) = Mines
    /\ \E p \in Cells : board[p].isMine /\ board[p].isFlagged

\* C20: the number of revealed non-mine cells never exceeds rows*cols - mines
\* (coveredLeft is at least mines), and in phase playing it is less
\* (coveredLeft is greater than mines).
C20_CoveredLeftAtLeastMines ==
    LET n == Cardinality({ p \in Cells : board[p].isRevealed /\ ~board[p].isMine })
    IN  /\ n <= Rows * Cols - Mines
        /\ coveredLeft >= Mines
        /\ status = "playing" => (n < Rows * Cols - Mines /\ coveredLeft > Mines)

====
